---- MODULE Spec2Model ----
(***************************************************************************)
(* A model of the OpenBase repository:                                     *)
(*   - the benchmark orchestrator `compare` of main.py with the score      *)
(*     normalisation and the size bucket of benchmarks/stats_utils.py,     *)
(*   - the score formulas of the registered benchmark scorers,             *)
(*   - the weather reminder UmbrellaApp with its file cache,               *)
(*   - assess_testability with the coverage report it reads and removes,   *)
(*   - the scalability analyzers on lists of paths that may fail,          *)
(*   - extract_code_from_text and perfect_code_with_model of llm_tools.py. *)
(*                                                                         *)
(* Numbers.  Python floats are modelled by exact arithmetic.  In the       *)
(* orchestrator and in normalize_scores_zscore a score is an integer       *)
(* number of hundredths (12.0 is 1200) and a weight an integer number of   *)
(* tenths (1.0 is 10), so a weighted score is in thousandths.  The scorer  *)
(* formulas divide by counts and are computed over exact fractions         *)
(* [n |-> numerator, d |-> denominator > 0].  Rounding of IEEE doubles is  *)
(* outside the model.                                                      *)
(*                                                                         *)
(* Strings that the code converts character by character (benchmark       *)
(* names, the --skip option) are sequences of one-character strings.       *)
(***************************************************************************)
EXTENDS Integers, Sequences, FiniteSets, TLC

VARIABLES
    \* ---- main.py compare ----
    pc,                 \* position of compare: "start", "run", "done", "exit"
    skip,               \* the --skip option as given (characters)
    skip_set,           \* main.py:542
    benchmark_weights,  \* main.py:536 (parsed --weights: name -> tenths)
    langs1, langs2,     \* main.py:559-560
    benchmarks_to_run,  \* main.py:563 (sequence of display names)
    idx,                \* position of the loop of main.py:607
    result_objects1, result_objects2,       \* main.py:578-579
    raw_scores1, raw_scores2,               \* main.py:571-572
    details1, details2,                     \* main.py:573-574
    normalized_scores1, normalized_scores2, \* main.py:643-644
    total_score1, total_score2,             \* main.py:659
    overall_winner,                         \* main.py:702-710
    returned1, returned2, \* history: what each scorer call returned (score, details)
    \* ---- the weather reminder ----
    cache_enabled,      \* caching.py:14
    cache_ttl,          \* caching.py:15 (seconds)
    cache_files,        \* the files of the cache directory: key -> content
    now,                \* time.time() (seconds)
    provider,           \* core.py:34 (the provider's class name)
    notifiers,          \* core.py:35 (sequence of notifier names)
    last,               \* history: the last call made and what it did
    \* ---- normalize_scores_zscore on its own ----
    raw_scores,         \* stats_utils.py:42 (the argument `scores`)
    normalized_scores,  \* stats_utils.py:55-62 (the dict returned)
    nz_pc,              \* "collect" while the scores are gathered, then "done"
    \* ---- get_codebase_size_bucket ----
    python_files,       \* stats_utils.py:24 (the .py files of the codebase)
    bucket,             \* what get_codebase_size_bucket returned, NotYet before
    \* ---- the scorers ----
    called,             \* history: the scorer last called and what it measured
    returned_score,     \* the score that call returned (an exact fraction)
    \* ---- assess_testability and the coverage report ----
    coverage_json,      \* testability.py:58 (the file <codebase>/coverage.json)
    tb,                 \* history: the last assess_testability call
    \* ---- the scalability analyzers on a list of paths ----
    analysis,           \* history: the analyzer last called and how it ended
    \* ---- llm_tools.py ----
    llm                 \* history: the last call into llm_tools and how it ended

cmpVars == <<pc, skip, skip_set, benchmark_weights, langs1, langs2,
             benchmarks_to_run, idx, result_objects1, result_objects2,
             raw_scores1, raw_scores2, details1, details2,
             normalized_scores1, normalized_scores2,
             total_score1, total_score2, overall_winner, returned1, returned2>>

umbVars == <<cache_enabled, cache_ttl, cache_files, now, provider, notifiers, last>>

nzVars == <<raw_scores, normalized_scores, nz_pc>>

bkVars == <<python_files, bucket>>

scVars == <<called, returned_score>>

tbVars == <<coverage_json, tb>>

anVars == <<analysis>>

llmVars == <<llm>>

vars == <<cmpVars, umbVars, nzVars, bkVars, scVars, tbVars, anVars, llmVars>>

\* what the steps of one part of the repository leave alone
notCmp == <<umbVars, nzVars, bkVars, scVars, tbVars, anVars, llmVars>>
notUmb == <<cmpVars, nzVars, bkVars, scVars, tbVars, anVars, llmVars>>
notNz == <<cmpVars, umbVars, bkVars, scVars, tbVars, anVars, llmVars>>
notBk == <<cmpVars, umbVars, nzVars, scVars, tbVars, anVars, llmVars>>
notSc == <<cmpVars, umbVars, nzVars, bkVars, tbVars, anVars, llmVars>>
notTb == <<cmpVars, umbVars, nzVars, bkVars, scVars, anVars, llmVars>>
notAn == <<cmpVars, umbVars, nzVars, bkVars, scVars, tbVars, llmVars>>
notLlm == <<cmpVars, umbVars, nzVars, bkVars, scVars, tbVars, anVars>>

NotYet == "not yet"

\* no call made yet (the history variables of the parts added below)
NoCall == [op |-> "none"]

\* testability.py:72 (os.path.exists(json_report_path) is False)
NoReport == [json |-> "absent"]

-----------------------------------------------------------------------------
(* Generic helpers *)

EmptyMap == [x \in {} |-> 0]

\* d[k] = v added to (or replaced in) a dict
Put(d, k, v) == [x \in (DOMAIN d) \cup {k} |-> IF x = k THEN v ELSE d[x]]

\* dict.get(k, default)
Get(d, k, default) == IF k \in DOMAIN d THEN d[k] ELSE default

RECURSIVE SumOver(_, _)
SumOver(S, f) ==
    IF S = {} THEN 0
    ELSE LET x == CHOOSE y \in S : TRUE IN f[x] + SumOver(S \ {x}, f)

Range(s) == {s[i] : i \in DOMAIN s}

MaxOf(S) == CHOOSE m \in S : \A y \in S : y <= m

-----------------------------------------------------------------------------
(* Python str methods over character sequences *)

LowerLetters == <<"a","b","c","d","e","f","g","h","i","j","k","l","m",
                  "n","o","p","q","r","s","t","u","v","w","x","y","z">>
UpperLetters == <<"A","B","C","D","E","F","G","H","I","J","K","L","M",
                  "N","O","P","Q","R","S","T","U","V","W","X","Y","Z">>

IsLower(c) == \E i \in DOMAIN LowerLetters : LowerLetters[i] = c
IsUpper(c) == \E i \in DOMAIN UpperLetters : UpperLetters[i] = c
IsCased(c) == IsLower(c) \/ IsUpper(c)

ToLower(c) ==
    IF IsUpper(c)
    THEN LowerLetters[CHOOSE i \in DOMAIN UpperLetters : UpperLetters[i] = c]
    ELSE c

ToUpper(c) ==
    IF IsLower(c)
    THEN UpperLetters[CHOOSE i \in DOMAIN LowerLetters : LowerLetters[i] = c]
    ELSE c

\* str.replace(old, new) for a one-character old and a new of any length
RECURSIVE Replace(_, _, _)
Replace(s, old, new) ==
    IF s = <<>> THEN <<>>
    ELSE (IF Head(s) = old THEN new ELSE <<Head(s)>>) \o Replace(Tail(s), old, new)

\* str.title(): a cased character is upper-cased when it starts a run of cased
\* characters and lower-cased inside one
Title(s) ==
    [i \in DOMAIN s |->
        IF ~IsCased(s[i]) THEN s[i]
        ELSE IF i > 1 /\ IsCased(s[i - 1]) THEN ToLower(s[i]) ELSE ToUpper(s[i])]

\* str.isspace() of one character (the whitespace of the model is the space
\* and the newline)
IsSpace(c) == c \in {" ", "\n"}

\* str.strip()
RECURSIVE LStrip(_)
LStrip(s) == IF s # <<>> /\ IsSpace(Head(s)) THEN LStrip(Tail(s)) ELSE s

RECURSIVE RStrip(_)
RStrip(s) ==
    IF s # <<>> /\ IsSpace(s[Len(s)]) THEN RStrip(SubSeq(s, 1, Len(s) - 1)) ELSE s

Strip(s) == RStrip(LStrip(s))

\* str.split(sep): the pieces between the separators, empty pieces included
RECURSIVE SplitAcc(_, _, _)
SplitAcc(s, sep, cur) ==
    IF s = <<>> THEN <<cur>>
    ELSE IF Head(s) = sep THEN <<cur>> \o SplitAcc(Tail(s), sep, <<>>)
    ELSE SplitAcc(Tail(s), sep, Append(cur, Head(s)))

Split(s, sep) == SplitAcc(s, sep, <<>>)

-----------------------------------------------------------------------------
(* The benchmark registry of main.py *)

mod_git_health == <<"g","i","t","_","h","e","a","l","t","h">>
mod_security == <<"s","e","c","u","r","i","t","y">>
mod_readability == <<"r","e","a","d","a","b","i","l","i","t","y">>
mod_performance == <<"p","e","r","f","o","r","m","a","n","c","e">>
mod_scalability == <<"s","c","a","l","a","b","i","l","i","t","y">>
mod_documentation == <<"d","o","c","u","m","e","n","t","a","t","i","o","n">>
mod_consistency == <<"c","o","n","s","i","s","t","e","n","c","y">>
mod_robustness == <<"r","o","b","u","s","t","n","e","s","s">>
mod_testability == <<"t","e","s","t","a","b","i","l","i","t","y">>
mod_maintainability == <<"m","a","i","n","t","a","i","n","a","b","i","l","i","t","y">>

\* main.py:40-51.  The model lists the modules in another order than the code
\* (the order decides only the order of the table rows) and registers the
\* first MaxModules of them.
BUILT_IN_MODULES ==
    <<mod_git_health, mod_security, mod_readability, mod_performance,
      mod_scalability, mod_documentation, mod_consistency, mod_robustness,
      mod_testability, mod_maintainability>>

MaxModules == 3

Modules == {BUILT_IN_MODULES[i] : i \in 1..MaxModules}

\* SUPPORTED_LANGUAGES of each benchmark module; a module that sets none
\* (performance) gets {"python"} by main.py:108
SUPPORTED_LANGUAGES(m) ==
    IF m \in {mod_git_health, mod_scalability} THEN {"any"} ELSE {"python"}

\* the scorers that return a BenchmarkResult; the others return (score, details)
ReturnsBenchmarkResult(m) == m \in {mod_security, mod_performance}

\* main.py:72-79
_to_display(name) == Replace(Title(Replace(name, "_", <<" ">>)), " ", <<>>)

\* main.py:91 (the display name _load_benchmarks gives a module)
DisplayName(m) == Replace(Title(Replace(m, "_", <<" ">>)), " ", <<>>)

\* main.py:87-101: the display names, in registration order
BENCHMARK_FUNCS == [i \in 1..MaxModules |-> DisplayName(BUILT_IN_MODULES[i])]

ModuleOf(name) == CHOOSE m \in Modules : DisplayName(m) = name

\* main.py:104-111
BENCHMARK_LANGS(name) == SUPPORTED_LANGUAGES(ModuleOf(name))

-----------------------------------------------------------------------------
(* benchmarks/stats_utils.py: BenchmarkResult and the normalisation *)

\* stats_utils.py:109-119
BenchmarkResult(score, details, raw_metrics) ==
    [type |-> "BenchmarkResult", score |-> score, details |-> details,
     raw_metrics |-> raw_metrics, confidence_interval |-> <<score, score>>]

\* the legacy result: a Python tuple (score, details)
LegacyTuple(score, details) == [type |-> "tuple", items |-> <<score, details>>]

OutlierAbove == 1500
CompressAbove == 1000

\* a variant that clips the scores above 10 instead of compressing them
normalize_scores_clip(scores) ==
    IF Cardinality(DOMAIN scores) < 2 THEN scores
    ELSE LET max_score == MaxOf({scores[n] : n \in DOMAIN scores}) IN
         IF max_score > OutlierAbove
         THEN [n \in DOMAIN scores |->
                 IF scores[n] > CompressAbove THEN CompressAbove ELSE scores[n]]
         ELSE scores

\* the compression applied from a largest score of 15 on
normalize_scores_zscore_from_15(scores) ==
    IF Cardinality(DOMAIN scores) < 2 THEN scores
    ELSE LET max_score == MaxOf({scores[n] : n \in DOMAIN scores}) IN
         IF max_score >= OutlierAbove
         THEN [n \in DOMAIN scores |->
                 IF scores[n] > CompressAbove
                 THEN CompressAbove + ((scores[n] - CompressAbove) * 3) \div 10
                 ELSE scores[n]]
         ELSE scores

\* stats_utils.py:42-64
normalize_scores_zscore(scores) ==
    IF Cardinality(DOMAIN scores) < 2 THEN scores
    ELSE LET max_score == MaxOf({scores[n] : n \in DOMAIN scores}) IN
         IF max_score > OutlierAbove
         THEN [n \in DOMAIN scores |->
                 IF scores[n] > CompressAbove
                 THEN CompressAbove + ((scores[n] - CompressAbove) * 3) \div 10
                 ELSE scores[n]]
         ELSE scores

-----------------------------------------------------------------------------
(* main.py compare *)

DefaultWeight == 10

\* a variant that takes only longer tuples for the legacy format
_unpack_result_long_tuple(result) ==
    IF result.type = "BenchmarkResult"
    THEN <<result.score, result.details, result.raw_metrics>>
    ELSE IF result.type = "tuple" /\ Len(result.items) > 2
    THEN <<result.items[1], result.items[2], EmptyMap>>
    ELSE IF result.type = "number" THEN <<result.value, <<>>, EmptyMap>>
    ELSE <<0, <<>>, EmptyMap>>

\* main.py:581-592
_unpack_result(result) ==
    IF result.type = "BenchmarkResult"
    THEN <<result.score, result.details, result.raw_metrics>>
    ELSE IF result.type = "tuple" /\ Len(result.items) >= 2
    THEN <<result.items[1], result.items[2], EmptyMap>>
    ELSE IF result.type = "number" THEN <<result.value, <<>>, EmptyMap>>
    ELSE <<0, <<>>, EmptyMap>>

\* main.py:542: {_to_display(s.strip()) for s in skip.split(',') if s.strip()}
SkipSet(skip_option) ==
    LET tokens == Split(skip_option, ",") IN
    {_to_display(Strip(tokens[i])) : i \in {j \in DOMAIN tokens : Strip(tokens[j]) # <<>>}}

\* main.py:563-569
RECURSIVE BenchmarksToRun(_, _, _, _)
BenchmarksToRun(i, skips, l1, l2) ==
    IF i > Len(BENCHMARK_FUNCS) THEN <<>>
    ELSE LET name == BENCHMARK_FUNCS[i]
             supported == BENCHMARK_LANGS(name)
             rest == BenchmarksToRun(i + 1, skips, l1, l2)
         IN IF name \in skips THEN rest
            ELSE IF "any" \in supported \/ (l1 \cap supported) # {}
                    \/ (l2 \cap supported) # {}
            THEN <<name>> \o rest
            ELSE rest

\* a variant in which a benchmark without a user weight counts for nothing
Weight_default_zero(weights, name) == Get(weights, name, 0)

\* main.py:662
Weight(weights, name) == Get(weights, name, DefaultWeight)

\* main.py:659-668: the accumulation of one codebase's total
RECURSIVE TotalScore(_, _, _, _)
TotalScore(names, i, normalized, weights) ==
    IF i > Len(names) THEN 0
    ELSE Get(normalized, names[i], 0) * Weight(weights, names[i])
         + TotalScore(names, i + 1, normalized, weights)

\* a variant that breaks a tie in favour of codebase 1
OverallWinner_ge(t1, t2) ==
    IF t1 >= t2 THEN "codebase1"
    ELSE IF t2 > t1 THEN "codebase2"
    ELSE "tie"

\* main.py:702-710
OverallWinner(t1, t2) ==
    IF t1 > t2 THEN "codebase1"
    ELSE IF t2 > t1 THEN "codebase2"
    ELSE "tie"

\* what a scorer may find: a score (hundredths) with its details
ScorerOutcomes ==
    { [score |-> 300,  details |-> <<"issue">>],
      [score |-> 1200, details |-> <<>>],
      [score |-> 2000, details |-> <<"issue", "issue">>] }

\* func(str(codebase)): the scorer of `name` wraps what it found in its result type
CallScorer(name, outcome) ==
    IF ReturnsBenchmarkResult(ModuleOf(name))
    THEN BenchmarkResult(outcome.score, outcome.details, EmptyMap)
    ELSE LegacyTuple(outcome.score, outcome.details)

\* the --skip options tried
SkipInputs ==
    { <<>>,
      <<"g","i","t","_","h","e","a","l","t","h">>,
      <<"G","i","t","H","e","a","l","t","h">>,
      <<" ","s","e","c","u","r","i","t","y"," ",",","g","i","t","_","h","e","a","l","t","h",",">>,
      <<"R","e","a","d","a","b","i","l","i","t","y",",","s","e","c","u","r","i","t","y">> }

\* the --weights options tried (already parsed: display name -> tenths)
WeightInputs ==
    { EmptyMap,
      (DisplayName(mod_security) :> 8),
      (DisplayName(mod_git_health) :> 20) @@ (DisplayName(mod_readability) :> 0) }

\* the languages detect_languages finds in the two codebases
LangInputs ==
    { <<{"python"}, {"python"}>>, <<{}, {"python"}>>, <<{"javascript"}, {}>> }

\* the parts of the repository that a specification does not start
IdleRest ==
    /\ raw_scores = EmptyMap
    /\ normalized_scores = EmptyMap
    /\ nz_pc = "collect"
    /\ python_files = <<>>
    /\ bucket = NotYet
    /\ called = [scorer |-> NotYet]
    /\ returned_score = [n |-> 0, d |-> 1]     \* no score yet
    /\ coverage_json = NoReport
    /\ tb = NoCall
    /\ analysis = NoCall
    /\ llm = NoCall

InitCompare ==
    /\ pc = "start"
    /\ skip = <<>>
    /\ skip_set = {}
    /\ benchmark_weights = EmptyMap
    /\ langs1 = {}
    /\ langs2 = {}
    /\ benchmarks_to_run = <<>>
    /\ idx = 1
    /\ result_objects1 = EmptyMap
    /\ result_objects2 = EmptyMap
    /\ raw_scores1 = EmptyMap
    /\ raw_scores2 = EmptyMap
    /\ details1 = EmptyMap
    /\ details2 = EmptyMap
    /\ normalized_scores1 = EmptyMap
    /\ normalized_scores2 = EmptyMap
    /\ total_score1 = 0
    /\ total_score2 = 0
    /\ overall_winner = "none"
    /\ returned1 = EmptyMap
    /\ returned2 = EmptyMap

\* main.py:531-539: a bad directory or bad --weights JSON ends the command
CompareRejects ==
    /\ pc = "start"
    /\ pc' = "exit"
    /\ UNCHANGED <<skip, skip_set, benchmark_weights, langs1, langs2,
                   benchmarks_to_run, idx, result_objects1, result_objects2,
                   raw_scores1, raw_scores2, details1, details2,
                   normalized_scores1, normalized_scores2,
                   total_score1, total_score2, overall_winner,
                   returned1, returned2>>
    /\ UNCHANGED notCmp

\* main.py:531-579: the options are read and the benchmarks to run are chosen
CompareStart ==
    /\ pc = "start"
    /\ \E s \in SkipInputs, w \in WeightInputs, l \in LangInputs :
          /\ skip' = s
          /\ skip_set' = SkipSet(s)
          /\ benchmark_weights' = w
          /\ langs1' = l[1]
          /\ langs2' = l[2]
          /\ benchmarks_to_run' = BenchmarksToRun(1, SkipSet(s), l[1], l[2])
    /\ pc' = "run"
    /\ UNCHANGED <<idx, result_objects1, result_objects2,
                   raw_scores1, raw_scores2, details1, details2,
                   normalized_scores1, normalized_scores2,
                   total_score1, total_score2, overall_winner,
                   returned1, returned2>>
    /\ UNCHANGED notCmp

\* main.py:607-632: one turn of the loop runs a benchmark on both codebases
RunBenchmark ==
    /\ pc = "run"
    /\ idx <= Len(benchmarks_to_run)
    /\ LET name == benchmarks_to_run[idx] IN
       \E o1 \in ScorerOutcomes, o2 \in ScorerOutcomes :
          LET result1 == CallScorer(name, o1)
              result2 == CallScorer(name, o2)
              u1 == _unpack_result(result1)
              u2 == _unpack_result(result2)
          IN /\ result_objects1' = Put(result_objects1, name, result1)
             /\ result_objects2' = Put(result_objects2, name, result2)
             /\ raw_scores1' = Put(raw_scores1, name, u1[1])
             /\ raw_scores2' = Put(raw_scores2, name, u2[1])
             /\ details1' = Put(details1, name, u1[2])
             /\ details2' = Put(details2, name, u2[2])
             /\ returned1' = Put(returned1, name, o1)
             /\ returned2' = Put(returned2, name, o2)
    /\ idx' = idx + 1
    /\ UNCHANGED <<pc, skip, skip_set, benchmark_weights, langs1, langs2,
                   benchmarks_to_run, normalized_scores1, normalized_scores2,
                   total_score1, total_score2, overall_winner>>
    /\ UNCHANGED notCmp

\* main.py:642-717: normalisation, weighted totals and the overall winner
CompareFinish ==
    /\ pc = "run"
    /\ idx > Len(benchmarks_to_run)
    /\ LET n1 == normalize_scores_zscore(raw_scores1)
           n2 == normalize_scores_zscore(raw_scores2)
           t1 == TotalScore(benchmarks_to_run, 1, n1, benchmark_weights)
           t2 == TotalScore(benchmarks_to_run, 1, n2, benchmark_weights)
       IN /\ normalized_scores1' = n1
          /\ normalized_scores2' = n2
          /\ total_score1' = t1
          /\ total_score2' = t2
          /\ overall_winner' = OverallWinner(t1, t2)
    /\ pc' = "done"
    /\ UNCHANGED <<skip, skip_set, benchmark_weights, langs1, langs2,
                   benchmarks_to_run, idx, result_objects1, result_objects2,
                   raw_scores1, raw_scores2, details1, details2,
                   returned1, returned2>>
    /\ UNCHANGED notCmp

NextCompare == CompareRejects \/ CompareStart \/ RunBenchmark \/ CompareFinish

-----------------------------------------------------------------------------
(* The weather reminder: caching.py *)

None == "None"

\* Python truth of a payload: None and the empty string are false
Truthy(x) == x \notin {None, ""}

NoFile == [state |-> "absent", timestamp |-> 0, payload |-> None]
CorruptFile == [state |-> "corrupt", timestamp |-> 0, payload |-> None]
CacheFile(ts, payload) == [state |-> "valid", timestamp |-> ts, payload |-> payload]

FileOf(files, key) == IF key \in DOMAIN files THEN files[key] ELSE NoFile

Remove(files, key) == [k \in (DOMAIN files) \ {key} |-> files[k]]

\* caching.py:76-89
CacheDelete(enabled, files, key) ==
    IF ~enabled THEN files
    ELSE IF key \in DOMAIN files THEN Remove(files, key)
    ELSE files

\* a variant that calls an entry expired as soon as its age reaches the ttl
CacheGet_expires_at_ttl(enabled, ttl, files, key, t) ==
    IF ~enabled THEN [ret |-> None, files |-> files]
    ELSE IF key \notin DOMAIN files THEN [ret |-> None, files |-> files]
    ELSE IF files[key].state = "corrupt"
    THEN [ret |-> None, files |-> CacheDelete(enabled, files, key)]
    ELSE IF t - files[key].timestamp >= ttl
    THEN [ret |-> None, files |-> CacheDelete(enabled, files, key)]
    ELSE [ret |-> files[key].payload, files |-> files]

\* caching.py:28-55: the value returned and the files left behind
CacheGet(enabled, ttl, files, key, t) ==
    IF ~enabled THEN [ret |-> None, files |-> files]
    ELSE IF key \notin DOMAIN files THEN [ret |-> None, files |-> files]
    ELSE IF files[key].state = "corrupt"
    THEN [ret |-> None, files |-> CacheDelete(enabled, files, key)]
    ELSE IF t - files[key].timestamp > ttl
    THEN [ret |-> None, files |-> CacheDelete(enabled, files, key)]
    ELSE [ret |-> files[key].payload, files |-> files]

\* caching.py:57-74.  io says how the write goes: "ok"; "open_fails" (open
\* raises IOError, the old file stays); "write_fails" (open truncated the
\* file and json.dump raises IOError: a file that is no JSON stays)
CacheSet(enabled, files, key, payload, t, io) ==
    IF ~enabled THEN files
    ELSE IF io = "ok" THEN Put(files, key, CacheFile(t, payload))
    ELSE IF io = "write_fails" THEN Put(files, key, CorruptFile)
    ELSE files

IoOutcomes == {"ok", "open_fails", "write_fails"}

-----------------------------------------------------------------------------
(* The weather reminder: UmbrellaApp *)

\* coordinates are integers in units of 0.00001 degree
Abs(x) == IF x < 0 THEN -x ELSE x

\* f"{x:.4f}": the sign and the digits of x rounded to 4 decimals (as a number
\* of 0.0001).  The inputs of the model avoid the ties of the rounding.
Format4(x) ==
    [neg |-> x < 0,
     digits |-> IF Abs(x) % 10 >= 5 THEN (Abs(x) \div 10) + 1 ELSE Abs(x) \div 10]

\* core.py:83
CacheKey(provider_class, lat, lon) == <<provider_class, Format4(lat), Format4(lon)>>

\* nws.py:32-54 / the provider's parsing of its data: the model's weather data
\* say themselves whether rain is forecast
check_for_rain(weather_data) == weather_data = "rainy"

\* core.py:97, 99 (the text without its emoji)
RainMessage == "Yes, it's going to rain. Don't forget your umbrella!"
NoRainMessage == "No rain expected. You can leave the umbrella at home."

\* core.py:96-99
determine_rain_message(weather_data) ==
    IF check_for_rain(weather_data) THEN RainMessage ELSE NoRainMessage

\* a variant that asks the provider whatever the cache returns
fetch_weather_data_no_cache_hit(enabled, ttl, files, key, lat, lon, fetched, t, io) ==
    LET got == CacheGet(enabled, ttl, files, key, t) IN
    [data |-> fetched,
     files |-> IF Truthy(fetched)
               THEN CacheSet(enabled, got.files, key, fetched, t, io)
               ELSE got.files,
     calls |-> <<<<"cache.get", key>>, <<"get_weather", lat, lon>>>>
               \o (IF Truthy(fetched) THEN <<<<"cache.set", key, fetched>>>> ELSE <<>>),
     cached |-> got.ret]

\* a variant that stores the data only after the rain check is made elsewhere
fetch_weather_data_no_store(enabled, ttl, files, key, lat, lon, fetched, t, io) ==
    LET got == CacheGet(enabled, ttl, files, key, t) IN
    IF Truthy(got.ret)
    THEN [data |-> got.ret, files |-> got.files,
          calls |-> <<<<"cache.get", key>>>>, cached |-> got.ret]
    ELSE [data |-> fetched, files |-> got.files,
          calls |-> <<<<"cache.get", key>>, <<"get_weather", lat, lon>>>>,
          cached |-> got.ret]

\* core.py:85-90 (umbrella_P0 core.py:72-82, fetch_weather_data): the data
\* used, the files left behind and the calls made, in order.  `fetched` is
\* what provider.get_weather returns if it is called.
fetch_weather_data(enabled, ttl, files, key, lat, lon, fetched, t, io) ==
    LET got == CacheGet(enabled, ttl, files, key, t) IN
    IF Truthy(got.ret)
    THEN [data |-> got.ret, files |-> got.files,
          calls |-> <<<<"cache.get", key>>>>, cached |-> got.ret]
    ELSE [data |-> fetched,
          files |-> IF Truthy(fetched)
                    THEN CacheSet(enabled, got.files, key, fetched, t, io)
                    ELSE got.files,
          calls |-> <<<<"cache.get", key>>, <<"get_weather", lat, lon>>>>
                    \o (IF Truthy(fetched) THEN <<<<"cache.set", key, fetched>>>> ELSE <<>>),
          cached |-> got.ret]

\* a loop that an exception of a send ends
RECURSIVE SendLoop_stops_at_error(_, _, _, _, _)
SendLoop_stops_at_error(ns, i, message, raising, done) ==
    IF i > Len(ns) THEN done
    ELSE LET tried == Append(done.calls, <<"send", ns[i], message>>) IN
         IF i \in raising
         THEN [calls |-> tried, errors |-> Append(done.errors, <<"error", ns[i]>>)]
         ELSE SendLoop_stops_at_error(ns, i + 1, message, raising,
                                      [calls |-> tried, errors |-> done.errors])

\* core.py:109-113: the loop over the notifiers from position i; the sends
\* of the notifiers at the positions `raising` raise an Exception, which is
\* caught and logged.  done holds the sends tried and the errors logged
RECURSIVE SendLoop(_, _, _, _, _)
SendLoop(ns, i, message, raising, done) ==
    IF i > Len(ns) THEN done
    ELSE LET tried == Append(done.calls, <<"send", ns[i], message>>) IN
         IF i \in raising
         THEN SendLoop(ns, i + 1, message, raising,
                       [calls |-> tried, errors |-> Append(done.errors, <<"error", ns[i]>>)])
         ELSE SendLoop(ns, i + 1, message, raising,
                       [calls |-> tried, errors |-> done.errors])

\* core.py:103-113: without notifiers a warning and nothing else; otherwise
\* the loop
send_notifications(ns, message, raising) ==
    IF ns = <<>> THEN [calls |-> <<>>, errors |-> <<>>, warned |-> TRUE]
    ELSE LET r == SendLoop(ns, 1, message, raising, [calls |-> <<>>, errors |-> <<>>])
         IN [calls |-> r.calls, errors |-> r.errors, warned |-> FALSE]

MaxTime == 2

ProviderClasses == {"NWSScraperProvider", "OpenWeatherMapApiProvider"}
NotifierConfigs == {<<>>, <<"console", "email">>}
TtlConfigs == {0, 1}

\* the notifiers whose send raises: none, the first, all of them
RaisingInputs(ns) == { {}, {1} \cap DOMAIN ns, DOMAIN ns }

NoCoords == <<>>
\* what the geocoder may answer: 10.00000,20.00000  10.00004,19.99996 (the
\* same key as the first)  -0.00004,20.00006
CoordInputs == {<<1000000, 2000000>>, <<1000004, 1999996>>, <<-4, 2000006>>}
\* what provider.get_weather may return
FetchOutcomes == {"rainy", "dry", None, ""}
CachePayloads == {"rainy", "dry"}

DefaultLocation == "123,456"
\* the --location argument ("" when it is not given)
LocationInputs == {"", "Test Location"}

\* the keys the application of one provider uses
Keys(p) == {CacheKey(p, c[1], c[2]) : c \in CoordInputs}

Idle == [op |-> "none"]

\* the weather reminder before it is configured
IdleUmbrella ==
    /\ cache_enabled = TRUE
    /\ cache_ttl = 0
    /\ cache_files = EmptyMap
    /\ now = 0
    /\ provider = "NWSScraperProvider"
    /\ notifiers = <<>>
    /\ last = Idle

\* core.py:27-35: the application built from a configuration, an empty cache
\* directory
InitUmbrella ==
    /\ InitCompare
    /\ IdleRest
    /\ cache_enabled \in BOOLEAN
    /\ cache_ttl \in TtlConfigs
    /\ cache_files = EmptyMap
    /\ now = 0
    /\ provider \in ProviderClasses
    /\ notifiers \in NotifierConfigs
    /\ last = Idle

\* time passes
Tick ==
    /\ now < MaxTime
    /\ now' = now + 1
    /\ last' = Idle
    /\ UNCHANGED <<cache_enabled, cache_ttl, cache_files, provider, notifiers>>
    /\ UNCHANGED notUmb

\* a call of Cache.get
CacheGetCall ==
    /\ \E key \in Keys(provider) :
          LET got == CacheGet(cache_enabled, cache_ttl, cache_files, key, now) IN
          /\ cache_files' = got.files
          /\ last' = [op |-> "get", key |-> key, ret |-> got.ret,
                      file |-> FileOf(cache_files, key), at |-> now]
    /\ UNCHANGED <<cache_enabled, cache_ttl, now, provider, notifiers>>
    /\ UNCHANGED notUmb

\* a call of Cache.set
CacheSetCall ==
    /\ \E key \in Keys(provider), payload \in CachePayloads, io \in IoOutcomes :
          /\ cache_files' = CacheSet(cache_enabled, cache_files, key, payload, now, io)
          /\ last' = [op |-> "set", key |-> key, payload |-> payload, io |-> io,
                      at |-> now]
    /\ UNCHANGED <<cache_enabled, cache_ttl, now, provider, notifiers>>
    /\ UNCHANGED notUmb

\* core.py:85-101: the rest of run once the coordinates are known
RunWithCoords(geocode, coords, fetched, io, raising) ==
    LET lat == coords[1]
        lon == coords[2]
        cache_key == CacheKey(provider, lat, lon)
        w == fetch_weather_data(cache_enabled, cache_ttl, cache_files,
                                cache_key, lat, lon, fetched, now, io)
        sent == send_notifications(notifiers, determine_rain_message(w.data), raising)
        tail == IF ~Truthy(w.data) THEN <<>>
                ELSE <<<<"check_for_rain", w.data>>>> \o sent.calls
    IN /\ cache_files' = w.files
       /\ last' = [op |-> "run", coords |-> coords,
                   calls |-> geocode \o w.calls \o tail,
                   key |-> cache_key,
                   had_entry |-> (cache_key \in DOMAIN cache_files),
                   cached |-> w.cached,
                   fetched |-> fetched, at |-> now,
                   wrote |-> (w.files # cache_files),
                   errors |-> IF Truthy(w.data) THEN sent.errors ELSE <<>>]

\* core.py:66-101: UmbrellaApp.run.  The geocoder answers with coordinates or
\* with nothing; the location is the argument or, without one, the default.
UmbrellaRun ==
    /\ \E location \in LocationInputs :
          LET location_str == IF location = "" THEN DefaultLocation ELSE location
              geocode == <<<<"get_coords", location_str>>>>
          IN \/ /\ cache_files' = cache_files
                /\ last' = [op |-> "run", coords |-> NoCoords, calls |-> geocode,
                            key |-> None, had_entry |-> FALSE, cached |-> None,
                            fetched |-> None, at |-> now, wrote |-> FALSE,
                            errors |-> <<>>]
             \/ /\ location # ""
                /\ \E coords \in CoordInputs, fetched \in FetchOutcomes, io \in IoOutcomes :
                      RunWithCoords(geocode, coords, fetched, io, {})
             \/ /\ location = ""
                /\ \E fetched \in FetchOutcomes, raising \in RaisingInputs(notifiers) :
                      RunWithCoords(geocode, <<1000000, 2000000>>, fetched, "ok", raising)
    /\ UNCHANGED <<cache_enabled, cache_ttl, now, provider, notifiers>>
    /\ UNCHANGED notUmb

\* core.py:103-113: a call of UmbrellaApp.send_notifications
SendNotifications ==
    /\ \E message \in {RainMessage, NoRainMessage}, raising \in RaisingInputs(notifiers) :
          LET r == send_notifications(notifiers, message, raising) IN
          last' = [op |-> "send_notifications", message |-> message,
                   raising |-> raising, calls |-> r.calls, errors |-> r.errors,
                   warned |-> r.warned]
    /\ UNCHANGED <<cache_enabled, cache_ttl, cache_files, now, provider, notifiers>>
    /\ UNCHANGED notUmb

NextUmbrella == Tick \/ CacheGetCall \/ CacheSetCall \/ UmbrellaRun \/ SendNotifications

-----------------------------------------------------------------------------
(* normalize_scores_zscore on the scores of one codebase *)

\* raw scores a scorer may report, in hundredths (above 10 in steps of 0.1,
\* which the compression by 0.3 maps to whole hundredths)
ScoreInputs == {0, 500, 1000, 1010, 1020, 1500, 1510, 2000}

\* main.py:607-632: one more benchmark's raw score is recorded
RecordScore ==
    /\ nz_pc = "collect"
    /\ \E name \in (DOMAIN BENCHMARK_FUNCS) \ DOMAIN raw_scores, s \in ScoreInputs :
          raw_scores' = Put(raw_scores, name, s)
    /\ UNCHANGED <<normalized_scores, nz_pc>>
    /\ UNCHANGED notNz

\* main.py:643-644: the raw scores are normalized
NormalizeScores ==
    /\ nz_pc = "collect"
    /\ normalized_scores' = normalize_scores_zscore(raw_scores)
    /\ nz_pc' = "done"
    /\ UNCHANGED raw_scores
    /\ UNCHANGED notNz

NextNormalize == RecordScore \/ NormalizeScores

-----------------------------------------------------------------------------
(* get_codebase_size_bucket *)

MaxFiles == 3

\* a .py file: its lines with and without text, and whether it can be opened
\* and decoded as UTF-8
FileInputs ==
    [non_empty : {1, 99, 900}, blank : {0, 5}, readable : BOOLEAN]

\* a variant that counts every line
_count_lines(f) == f.non_empty + f.blank

\* stats_utils.py:9-11
_count_non_empty_lines(f) == f.non_empty

SmallBelow == 100
MediumBelow == 1000

\* stats_utils.py:27-32: the loop over the files from the i-th on
RECURSIVE total_loc(_, _)
total_loc(files, i) ==
    IF i > Len(files) THEN 0
    ELSE (IF files[i].readable THEN _count_non_empty_lines(files[i]) ELSE 0)
         + total_loc(files, i + 1)

\* stats_utils.py:19-39
get_codebase_size_bucket(files) ==
    LET total == total_loc(files, 1) IN
    IF total < SmallBelow THEN "small"
    ELSE IF total < MediumBelow THEN "medium"
    ELSE "large"

\* the codebase gets one more .py file
AddFile ==
    /\ bucket = NotYet
    /\ Len(python_files) < MaxFiles
    /\ \E f \in FileInputs : python_files' = Append(python_files, f)
    /\ UNCHANGED bucket
    /\ UNCHANGED notBk

\* a call of get_codebase_size_bucket on the codebase
GetCodebaseSizeBucket ==
    /\ bucket = NotYet
    /\ bucket' = get_codebase_size_bucket(python_files)
    /\ UNCHANGED python_files
    /\ UNCHANGED notBk

NextBucket == AddFile \/ GetCodebaseSizeBucket

-----------------------------------------------------------------------------
(* The scorers.  A score is an exact fraction [n |-> numerator, d |->       *)
(* denominator > 0]; what a scorer measures in the codebase (counts, tool    *)
(* results) is its input.                                                    *)

RECURSIVE GCD(_, _)
GCD(a, b) == IF b = 0 THEN a ELSE GCD(b, a % b)

\* the fraction n/d in lowest terms
Frac(n, d) == LET g == GCD(Abs(n), d) IN [n |-> n \div g, d |-> d \div g]
Whole(k) == Frac(k, 1)
\* a decimal literal with one digit after the point: Tenths(25) is 2.5
Tenths(k) == Frac(k, 10)
FAdd(a, b) == Frac(a.n * b.d + b.n * a.d, a.d * b.d)
FSub(a, b) == Frac(a.n * b.d - b.n * a.d, a.d * b.d)
FMul(a, b) == Frac(a.n * b.n, a.d * b.d)
FLess(a, b) == a.n * b.d < b.n * a.d
FLeq(a, b) == a.n * b.d <= b.n * a.d
FMax(a, b) == IF FLess(a, b) THEN b ELSE a
FMin(a, b) == IF FLess(b, a) THEN b ELSE a
\* min(10.0, max(0.0, x))
Clamp0To10(x) == FMin(Whole(10), FMax(Whole(0), x))

\* a variant that applies the multiplier and does not cap the product
adjust_score_for_size_no_cap(raw_score, size_bucket, metric_type) ==
    LET multiplier ==
          IF metric_type = "maintainability"
          THEN (CASE size_bucket = "small" -> Tenths(15)
                  [] size_bucket = "medium" -> Tenths(10)
                  [] OTHER -> Tenths(9))
          ELSE IF metric_type = "readability"
          THEN (CASE size_bucket = "small" -> Tenths(12)
                  [] size_bucket = "medium" -> Tenths(10)
                  [] OTHER -> Frac(95, 100))
          ELSE (CASE size_bucket = "small" -> Tenths(11)
                  [] OTHER -> Tenths(10))
    IN FMul(raw_score, multiplier)

\* stats_utils.py:82-103 (with _clamp_max, stats_utils.py:14-16)
adjust_score_for_size(raw_score, size_bucket, metric_type) ==
    LET multiplier ==
          IF metric_type = "maintainability"
          THEN (CASE size_bucket = "small" -> Tenths(15)
                  [] size_bucket = "medium" -> Tenths(10)
                  [] OTHER -> Tenths(9))
          ELSE IF metric_type = "readability"
          THEN (CASE size_bucket = "small" -> Tenths(12)
                  [] size_bucket = "medium" -> Tenths(10)
                  [] OTHER -> Frac(95, 100))
          ELSE (CASE size_bucket = "small" -> Tenths(11)
                  [] OTHER -> Tenths(10))
        product == FMul(raw_score, multiplier)
    IN IF FLeq(product, Whole(10)) THEN product ELSE Whole(10)

SizeBuckets == {"small", "medium", "large"}

\* readability.py:60-111.  complexity and functions are radon's totals,
\* pep8_errors pycodestyle's count.
assess_readability(no_files, total_complexity, total_functions, pep8_errors) ==
    IF no_files THEN Whole(0)
    ELSE LET average_complexity ==
               IF total_functions > 0 THEN Frac(total_complexity, total_functions)
               ELSE Whole(0)
             complexity_score ==
               FMax(Whole(0), FSub(Whole(10), FSub(average_complexity, Whole(5))))
             pep8_score == FMax(Whole(0), FSub(Whole(10), Frac(pep8_errors, 5)))
             readability_score ==
               FAdd(FMul(Tenths(6), complexity_score), FMul(Tenths(4), pep8_score))
         IN Clamp0To10(readability_score)

\* consistency.py:38-89
assess_consistency(no_files, total_identifiers, inconsistent_identifiers) ==
    IF no_files THEN Whole(0)
    ELSE IF total_identifiers = 0 THEN Whole(10)
    ELSE LET consistency_ratio ==
               Frac(total_identifiers - inconsistent_identifiers, total_identifiers)
         IN Clamp0To10(FMul(consistency_ratio, Whole(10)))

\* documentation.py:36-87
assess_documentation(no_files, total_entities, documented_entities, good_docstrings) ==
    IF no_files THEN Whole(0)
    ELSE IF total_entities = 0 THEN Whole(0)
    ELSE LET doc_coverage == FMul(Frac(documented_entities, total_entities), Whole(100))
             quality_ratio == IF documented_entities # 0
                              THEN Frac(good_docstrings, documented_entities)
                              ELSE Whole(0)
             coverage_score == FMul(doc_coverage, Frac(1, 10))
             quality_score == FMul(quality_ratio, Whole(10))
             final_score == FMul(FAdd(coverage_score, quality_score), Frac(1, 2))
         IN Clamp0To10(final_score)

\* robustness.py:87-141
assess_robustness(no_files, uses_logging, total_handlers, good_handlers) ==
    IF no_files THEN Whole(0)
    ELSE IF total_handlers = 0 THEN (IF uses_logging THEN Whole(5) ELSE Whole(2))
    ELSE LET handler_quality == Frac(good_handlers, total_handlers)
             handler_score == FMul(handler_quality, Whole(8))
             with_bonus == IF uses_logging THEN FAdd(handler_score, Whole(2))
                           ELSE handler_score
         IN Clamp0To10(with_bonus)

\* the covered percentage taken as the score, without the division by 10
assess_testability_undivided(outcome, percent_covered) ==
    IF outcome \in {"no_tests", "no_pytest", "no_report"} THEN Whole(0)
    ELSE LET s == IF outcome = "report" THEN Frac(percent_covered, 10) ELSE Whole(0)
         IN Clamp0To10(s)

\* testability.py:49-95.  outcome says how far the run gets: "no_tests",
\* "no_pytest", "no_report", "bad_report" or "report" (coverage.json parsed,
\* with percent_covered in tenths of a percent)
assess_testability(outcome, percent_covered) ==
    IF outcome \in {"no_tests", "no_pytest", "no_report"} THEN Whole(0)
    ELSE LET s == IF outcome = "report"
                  THEN FMul(Frac(percent_covered, 10), Frac(1, 10))
                  ELSE Whole(0)
         IN Clamp0To10(s)

\* the churn thresholds taken inclusively
_score_from_avg_and_bus_factor_leq(avg_churn, bus_factor) ==
    LET base_score == IF FLeq(avg_churn, Whole(3)) THEN Whole(9)
                      ELSE IF FLeq(avg_churn, Whole(10)) THEN Whole(7)
                      ELSE IF FLeq(avg_churn, Whole(20)) THEN Whole(5)
                      ELSE Whole(3)
        bonus == FMin(Whole(2), Frac(bus_factor, 5))
    IN FMin(Whole(10), FAdd(base_score, bonus))

\* git_health.py:15-37
_score_from_avg_and_bus_factor(avg_churn, bus_factor) ==
    LET base_score == IF FLess(avg_churn, Whole(3)) THEN Whole(9)
                      ELSE IF FLess(avg_churn, Whole(10)) THEN Whole(7)
                      ELSE IF FLess(avg_churn, Whole(20)) THEN Whole(5)
                      ELSE Whole(3)
        bonus == FMin(Whole(2), Frac(bus_factor, 5))
    IN FMin(Whole(10), FAdd(base_score, bonus))

\* git_health.py:41-93.  changes is the number of changes of .py files in the
\* recent commits, files the number of files changed, authors the committers.
assess_git_health(is_repo, changes, files, authors) ==
    IF ~is_repo THEN Whole(5)
    ELSE IF files = 0 THEN Whole(8)
    ELSE FMin(Whole(10), _score_from_avg_and_bus_factor(Frac(changes, files), authors))

\* security.py:100-160: the bandit score of what the bandit run gave
BanditScore(b) ==
    CASE b.kind = "report" ->
            LET score_deduction ==
                  FAdd(Whole(b.high * 3 + b.medium), FMul(Whole(b.low), Tenths(5)))
            IN FMax(Whole(0), FSub(Whole(10), score_deduction))
      [] b.kind = "no_results" -> Whole(5)
      [] b.kind = "timeout" -> Whole(3)
      [] OTHER -> Whole(0)          \* no executable, or the run raised

\* security.py:163-232: the safety score of what the safety run gave
SafetyScore(sf) ==
    CASE sf.kind = "no_requirements" -> Whole(8)
      [] sf.kind = "unreadable" -> Whole(5)
      [] sf.kind = "no_tool" -> Whole(8)
      [] sf.kind = "report" -> FMax(Whole(0), FSub(Whole(10), Whole(sf.vulns * 2)))
      [] sf.kind = "bad_json" -> Whole(10)
      [] sf.kind = "no_output" -> Whole(8)
      [] sf.kind = "timeout" -> Whole(7)
      [] OTHER -> Whole(5)          \* the run raised

\* security.py:76-239
_assess_static_security(path_ok, b, sf) ==
    IF ~path_ok THEN Whole(0)
    ELSE FAdd(FMul(BanditScore(b), Tenths(7)), FMul(SafetyScore(sf), Tenths(3)))

\* security.py:242-377: the score of the ZAP scan
_assess_dynamic_security(z) ==
    CASE z.kind = "report" ->
            LET score_deduction ==
                  FAdd(Whole(z.high * 4 + z.medium * 2), FMul(Whole(z.low), Tenths(5)))
            IN FMax(Whole(0), FSub(Whole(10), score_deduction))
      [] z.kind = "failed" -> Whole(3)      \* timeout, or the run raised
      [] OTHER -> Whole(5)                  \* bad URL, no tool, unparsed output

\* security.py:18-73.  z.kind is "no_url" without BENCH_WEB_APP_URL and
\* "raised" when the dynamic assessment raises.
assess_security(static_raised, path_ok, b, sf, z, size_bucket) ==
    LET static_score == IF static_raised THEN Whole(0)
                        ELSE _assess_static_security(path_ok, b, sf)
        final_score ==
          IF z.kind \in {"no_url", "raised"} THEN static_score
          ELSE FAdd(FMul(Tenths(6), static_score),
                    FMul(Tenths(4), _assess_dynamic_security(z)))
    IN adjust_score_for_size(final_score, size_bucket, "security")

\* performance.py:192-244.  lz is what lizard gave: whether it gave an average
\* complexity (avg_cc), and that high_cc of total_funcs functions have CC > 20;
\* anti_patterns is the penalty of the anti-pattern scan.
_assess_static_performance(lz, anti_patterns) ==
    LET cc_penalty == IF lz.ok /\ lz.avg_cc > 10
                      THEN Frac(lz.avg_cc - 10, 2) ELSE Whole(0)
        ratio == IF lz.ok /\ lz.high_cc > 0 /\ lz.total_funcs > 0
                 THEN Frac(lz.high_cc, lz.total_funcs) ELSE Whole(0)
        penalties == FAdd(FAdd(cc_penalty, FMul(ratio, Whole(3))), anti_patterns)
    IN FMax(Whole(0), FMin(Whole(10), FSub(Whole(10), penalties)))

\* performance.py:322-370: the dynamic score of the two measured scores
_assess_dynamic_performance(script_is_file, time_score, memory_score) ==
    IF ~script_is_file THEN Whole(0)
    ELSE FMul(FAdd(Whole(time_score), Whole(memory_score)), Frac(1, 2))

\* performance.py:19-71.  dyn.kind is "no_script" without a profile script.
assess_performance(no_files, lz, anti_patterns, dyn, size_bucket) ==
    IF no_files THEN Whole(0)
    ELSE LET static_score ==
               _assess_static_performance(lz, anti_patterns)
             final_score ==
               IF dyn.kind = "no_script" THEN static_score
               ELSE FAdd(FMul(Tenths(4), static_score),
                         FMul(Tenths(6),
                              _assess_dynamic_performance(dyn.kind = "script",
                                                          dyn.time_score,
                                                          dyn.memory_score)))
         IN adjust_score_for_size(final_score, size_bucket, "performance")

\* scalability.py:204-237, 240-299, 302-370, 373-409: each analyzer caps the
\* points it tallied (in tenths)
CapTenths(points, cap) == IF points < cap THEN Tenths(points) ELSE Tenths(cap)

_analyze_file_structure(points) == CapTenths(points, 25)
_analyze_dependencies(points) == CapTenths(points, 20)
_analyze_design_patterns(points) == CapTenths(points, 20)
_analyze_data_flow(points) == CapTenths(points, 15)

\* scalability.py:181-200
_assess_static_architecture(a) ==
    FMin(Whole(10),
         FAdd(FAdd(_analyze_file_structure(a[1]), _analyze_dependencies(a[2])),
              FAdd(_analyze_design_patterns(a[3]), _analyze_data_flow(a[4]))))

\* scalability.py:102-144: the points (in tenths) of what the codebase uses
FeaturePoints ==
    [asyncio |-> 25, multiprocessing |-> 25, web_frameworks |-> 15,
     database_libs |-> 10, threading |-> 10, caching_libs |-> 15,
     queue_systems |-> 15, connection_pooling |-> 10,
     modular_structure |-> 5, config_management |-> 5]

\* scalability.py:14-178.  uses is the set of the features found, a the points
\* the architecture analyzers tallied.
assess_scalability(n_files, uses, class_count, async_functions, total_functions, a) ==
    IF n_files = 0 THEN Whole(2)
    ELSE LET base == Tenths(20 + SumOver(uses, FeaturePoints))
             class_part == IF class_count > 0
                           THEN FMul(FMin(Whole(1), Frac(class_count, n_files)), Tenths(5))
                           ELSE Whole(0)
             async_part == IF total_functions > 0 /\ async_functions > 0
                           THEN FMin(Whole(1),
                                     FMul(Frac(async_functions, total_functions), Whole(2)))
                           ELSE Whole(0)
             files_part == IF n_files > 1 THEN FMin(Tenths(5), Tenths(n_files))
                           ELSE Whole(0)
             s == FAdd(FAdd(base, class_part), FAdd(async_part, files_part))
             architectural_score == _assess_static_architecture(a)
         IN IF FLess(Whole(0), architectural_score)
            THEN FAdd(FMul(architectural_score, Tenths(7)),
                      FMul(FMin(Whole(10), s), Tenths(3)))
            ELSE FMin(Whole(10), FMax(Whole(2), s))

\* ---- what the scorers may measure ----

\* <<total complexity, functions>> of radon
ComplexityInputs == {<<0, 0>>, <<2, 2>>, <<30, 4>>, <<80, 2>>}
Pep8Inputs == {0, 7, 60}
\* <<identifiers, inconsistent ones>>
IdentifierInputs == {<<0, 0>>, <<3, 0>>, <<3, 1>>, <<3, 3>>}
\* <<entities, documented ones, good docstrings>>
DocInputs == {<<0, 0, 0>>, <<4, 0, 0>>, <<4, 3, 1>>, <<4, 4, 4>>}
\* <<handlers, good ones>>
HandlerInputs == {<<0, 0>>, <<3, 0>>, <<3, 2>>, <<3, 3>>}
TestRunOutcomes == {"no_tests", "no_pytest", "no_report", "bad_report", "report"}
\* percent_covered in tenths of a percent
CoverageInputs == {0, 455, 500, 850, 1000}
\* <<changes, files changed>>
ChurnInputs ==
    {<<0, 0>>, <<2, 1>>, <<9, 3>>, <<19, 2>>, <<20, 2>>, <<31, 2>>, <<40, 2>>}
AuthorInputs == {1, 5, 10, 12}

Finding(kind, high, medium, low) ==
    [kind |-> kind, high |-> high, medium |-> medium, low |-> low]
BanditOutcomes ==
    {Finding("report", 0, 0, 0), Finding("report", 1, 2, 3), Finding("report", 4, 0, 1),
     Finding("no_results", 0, 0, 0), Finding("timeout", 0, 0, 0),
     Finding("missing", 0, 0, 0)}
SafetyOutcomes ==
    {[kind |-> "report", vulns |-> 0], [kind |-> "report", vulns |-> 2],
     [kind |-> "report", vulns |-> 6], [kind |-> "no_requirements", vulns |-> 0],
     [kind |-> "timeout", vulns |-> 0], [kind |-> "raised", vulns |-> 0]}
ZapOutcomes ==
    {Finding("no_url", 0, 0, 0), Finding("raised", 0, 0, 0), Finding("report", 0, 0, 0),
     Finding("report", 1, 1, 1), Finding("failed", 0, 0, 0), Finding("no_tool", 0, 0, 0)}

LizardOutcomes ==
    {[ok |-> FALSE, avg_cc |-> 0, high_cc |-> 0, total_funcs |-> 0],
     [ok |-> TRUE, avg_cc |-> 4, high_cc |-> 0, total_funcs |-> 4],
     [ok |-> TRUE, avg_cc |-> 13, high_cc |-> 1, total_funcs |-> 4],
     [ok |-> TRUE, avg_cc |-> 40, high_cc |-> 4, total_funcs |-> 4]}
AntiPatternInputs == {Whole(0), Tenths(18), Whole(12)}
ProfileOutcomes ==
    {[kind |-> "no_script", time_score |-> 0, memory_score |-> 0],
     [kind |-> "not_a_file", time_score |-> 0, memory_score |-> 0],
     [kind |-> "script", time_score |-> 10, memory_score |-> 10],
     [kind |-> "script", time_score |-> 0, memory_score |-> 8],
     [kind |-> "script", time_score |-> 6, memory_score |-> 4]}

FeatureInputs ==
    {{}, {"asyncio"}, {"web_frameworks", "database_libs", "config_management"},
     {"asyncio", "multiprocessing", "web_frameworks", "database_libs", "threading",
      "caching_libs", "queue_systems", "connection_pooling", "modular_structure",
      "config_management"}}
\* <<files, classes, async functions, functions>>
ShapeInputs == {<<0, 0, 0, 0>>, <<1, 0, 0, 3>>, <<4, 2, 1, 4>>, <<9, 20, 6, 6>>}
\* the points the four architecture analyzers tallied, in tenths
ArchitectureInputs == {<<0, 0, 0, 0>>, <<13, 8, 5, 4>>, <<33, 23, 22, 25>>}

\* ---- one call of each scorer ----

CallReadability ==
    /\ called.scorer = NotYet
    /\ \E no_files \in BOOLEAN, c \in ComplexityInputs, e \in Pep8Inputs :
          /\ called' = [scorer |-> "readability", args |-> <<no_files, c, e>>]
          /\ returned_score' = assess_readability(no_files, c[1], c[2], e)
    /\ UNCHANGED notSc

CallConsistency ==
    /\ called.scorer = NotYet
    /\ \E no_files \in BOOLEAN, i \in IdentifierInputs :
          /\ called' = [scorer |-> "consistency", args |-> <<no_files, i>>]
          /\ returned_score' = assess_consistency(no_files, i[1], i[2])
    /\ UNCHANGED notSc

CallDocumentation ==
    /\ called.scorer = NotYet
    /\ \E no_files \in BOOLEAN, d \in DocInputs :
          /\ called' = [scorer |-> "documentation", args |-> <<no_files, d>>]
          /\ returned_score' = assess_documentation(no_files, d[1], d[2], d[3])
    /\ UNCHANGED notSc

CallRobustness ==
    /\ called.scorer = NotYet
    /\ \E no_files \in BOOLEAN, uses_logging \in BOOLEAN, h \in HandlerInputs :
          /\ called' = [scorer |-> "robustness", args |-> <<no_files, uses_logging, h>>]
          /\ returned_score' = assess_robustness(no_files, uses_logging, h[1], h[2])
    /\ UNCHANGED notSc

CallTestability ==
    /\ called.scorer = NotYet
    /\ \E outcome \in TestRunOutcomes, percent_covered \in CoverageInputs :
          /\ called' = [scorer |-> "testability", args |-> <<outcome, percent_covered>>]
          /\ returned_score' = assess_testability(outcome, percent_covered)
    /\ UNCHANGED notSc

CallGitHealth ==
    /\ called.scorer = NotYet
    /\ \E is_repo \in BOOLEAN, c \in ChurnInputs, authors \in AuthorInputs :
          /\ called' = [scorer |-> "git_health", args |-> <<is_repo, c, authors>>]
          /\ returned_score' = assess_git_health(is_repo, c[1], c[2], authors)
    /\ UNCHANGED notSc

CallSecurity ==
    /\ called.scorer = NotYet
    /\ \E static_raised \in BOOLEAN, path_ok \in BOOLEAN, b \in BanditOutcomes,
          sf \in SafetyOutcomes, z \in ZapOutcomes, size_bucket \in SizeBuckets :
          /\ called' = [scorer |-> "security",
                        args |-> <<static_raised, path_ok, b, sf, z, size_bucket>>]
          /\ returned_score' =
                assess_security(static_raised, path_ok, b, sf, z, size_bucket)
    /\ UNCHANGED notSc

CallPerformance ==
    /\ called.scorer = NotYet
    /\ \E no_files \in BOOLEAN, lz \in LizardOutcomes, ap \in AntiPatternInputs,
          dyn \in ProfileOutcomes, size_bucket \in SizeBuckets :
          /\ called' = [scorer |-> "performance",
                        args |-> <<no_files, lz, ap, dyn, size_bucket>>]
          /\ returned_score' = assess_performance(no_files, lz, ap, dyn, size_bucket)
    /\ UNCHANGED notSc

CallScalability ==
    /\ called.scorer = NotYet
    /\ \E uses \in FeatureInputs, sh \in ShapeInputs, a \in ArchitectureInputs :
          /\ called' = [scorer |-> "scalability", args |-> <<uses, sh, a>>]
          /\ returned_score' = assess_scalability(sh[1], uses, sh[2], sh[3], sh[4], a)
    /\ UNCHANGED notSc

\* main.py:607-632: the caller takes the score and goes on to its next call
ScoreTaken ==
    /\ called.scorer # NotYet
    /\ called' = [scorer |-> NotYet]
    /\ returned_score' = Whole(0)
    /\ UNCHANGED notSc

NextScorers ==
    \/ CallReadability \/ CallConsistency \/ CallDocumentation
    \/ CallRobustness \/ CallTestability \/ CallGitHealth
    \/ CallSecurity \/ CallPerformance \/ CallScalability
    \/ ScoreTaken

-----------------------------------------------------------------------------
(* assess_testability with the file coverage.json of the codebase root *)

\* what coverage.json may hold: text that is not JSON, a JSON value that is
\* not an object, an object without "totals", or a coverage report
\* (percent_covered in tenths of a percent)
ReportContents ==
    { [json |-> "malformed"], [json |-> "not_object"], [json |-> "no_totals"] }
        \cup { [json |-> "valid", percent_covered |-> p] : p \in CoverageInputs }

\* testability.py:61-69.  What the pytest subprocess does: the executable is
\* missing (FileNotFoundError), it ends without a report (the report file
\* of the codebase root stays as it was), or it writes coverage.json
PytestRuns == {"not_found", "no_report", "writes"}

\* testability.py:75-88.  How reading the report ends
ParseOutcome(report) ==
    CASE report.json = "malformed" -> "bad_report"    \* json.JSONDecodeError
      [] report.json = "not_object" -> "raises"       \* AttributeError on .get
      [] OTHER -> "report"

\* testability.py:79 (report.get("totals", {}).get("percent_covered", 0.0))
PercentCovered(report) ==
    IF report.json = "valid" THEN report.percent_covered ELSE 0

\* the cleanup that runs only when the report was read
TestabilityRun_cleanup_on_success_only(has_tests, pytest, written, file) ==
    IF ~has_tests
    THEN [returned |-> TRUE, outcome |-> "no_tests", after_pytest |-> file,
          score |-> assess_testability("no_tests", 0), file |-> file]
    ELSE IF pytest = "not_found"
    THEN [returned |-> TRUE, outcome |-> "no_pytest", after_pytest |-> file,
          score |-> assess_testability("no_pytest", 0), file |-> file]
    ELSE LET after_pytest == IF pytest = "writes" THEN written ELSE file IN
         IF after_pytest = NoReport
         THEN [returned |-> TRUE, outcome |-> "no_report", after_pytest |-> after_pytest,
               score |-> assess_testability("no_report", 0), file |-> after_pytest]
         ELSE LET outcome == ParseOutcome(after_pytest) IN
              [returned |-> outcome # "raises",
               outcome |-> outcome,
               after_pytest |-> after_pytest,
               score |-> IF outcome = "raises" THEN Whole(0)
                         ELSE assess_testability(outcome, PercentCovered(after_pytest)),
               file |-> IF outcome = "report" THEN NoReport ELSE after_pytest]

\* testability.py:29-95.  One call on a codebase whose root holds `file` as
\* coverage.json: has_tests is the test of line 55, pytest what the
\* subprocess does and written what it writes.  The result tells whether the
\* call returned (or raised), how far it got, the file as pytest left it,
\* the score and the file when the call ends
TestabilityRun(has_tests, pytest, written, file) ==
    IF ~has_tests
    THEN [returned |-> TRUE, outcome |-> "no_tests", after_pytest |-> file,
          score |-> assess_testability("no_tests", 0), file |-> file]
    ELSE IF pytest = "not_found"
    THEN [returned |-> TRUE, outcome |-> "no_pytest", after_pytest |-> file,
          score |-> assess_testability("no_pytest", 0), file |-> file]
    ELSE LET after_pytest == IF pytest = "writes" THEN written ELSE file IN
         IF after_pytest = NoReport      \* testability.py:72-73
         THEN [returned |-> TRUE, outcome |-> "no_report", after_pytest |-> after_pytest,
               score |-> assess_testability("no_report", 0), file |-> after_pytest]
         ELSE LET outcome == ParseOutcome(after_pytest) IN
              [returned |-> outcome # "raises",
               outcome |-> outcome,
               after_pytest |-> after_pytest,
               score |-> IF outcome = "raises" THEN Whole(0)   \* no value
                         ELSE assess_testability(outcome, PercentCovered(after_pytest)),
               file |-> NoReport]        \* testability.py:91-93 (finally)

\* something other than assess_testability leaves a coverage.json in the
\* codebase root (an earlier pytest --cov-report=json, a committed file)
WriteCoverageJson ==
    /\ \E c \in ReportContents : coverage_json' = c
    /\ tb' = NoCall
    /\ UNCHANGED notTb

\* ... or removes it
RemoveCoverageJson ==
    /\ coverage_json # NoReport
    /\ coverage_json' = NoReport
    /\ tb' = NoCall
    /\ UNCHANGED notTb

AssessTestability ==
    /\ \E has_tests \in BOOLEAN, pytest \in PytestRuns, written \in ReportContents :
          LET r == TestabilityRun(has_tests, pytest, written, coverage_json) IN
          /\ (pytest # "writes" => written = [json |-> "malformed"])   \* unused then
          /\ tb' = [op |-> "assess_testability", has_tests |-> has_tests,
                    pytest |-> pytest, before |-> coverage_json,
                    returned |-> r.returned, outcome |-> r.outcome,
                    after_pytest |-> r.after_pytest, score |-> r.score,
                    at_return |-> r.file]
          /\ coverage_json' = r.file
    /\ UNCHANGED notTb

NextTestability == WriteCoverageJson \/ RemoveCoverageJson \/ AssessTestability

-----------------------------------------------------------------------------
(* The scalability analyzers on a list of paths *)

MaxPaths == 3

\* what a path of python_files may be: a file with source text (the texts of
\* scalability.py:421-461), a file whose text does not parse, a file that
\* may not be read, a directory
PathInputs ==
    { [kind |-> "ok", text |-> "import os"],
      [kind |-> "ok", text |-> "class MyClass: pass"],
      [kind |-> "ok", text |-> "def gen(): yield 1"],
      [kind |-> "syntax_error", text |-> "def foo(: yield"],
      [kind |-> "unreadable", text |-> ""],
      [kind |-> "directory", text |-> ""] }

PathLists == UNION { [1..n -> PathInputs] : n \in 0..MaxPaths }

\* scalability.py:252-255: the exception that open/read (and ast.parse, when
\* the analyzer parses) raises for a path, "none" when the file is processed
RaisedBy(path, parses) ==
    IF path.kind \in {"unreadable", "directory"} THEN "OSError"
    ELSE IF parses /\ path.kind = "syntax_error" THEN "SyntaxError"
    ELSE "none"

\* an except clause that lets everything but OSError through
Handled_oserror_only(exc, handlers) == exc = "OSError" /\ exc \in handlers

\* scalability.py:279: except (...) as e: ... continue
Handled(exc, handlers) == exc \in handlers

\* scalability.py:250-281: the loop over python_files (paths) up to position i, with
\* the files processed so far; it stops at an exception no clause handles
RECURSIVE WalkFiles(_, _, _, _, _)
WalkFiles(paths, i, parses, handlers, done) ==
    IF i > Len(paths) THEN [raised |-> FALSE, processed |-> done]
    ELSE LET exc == RaisedBy(paths[i], parses) IN
         IF exc = "none"
         THEN WalkFiles(paths, i + 1, parses, handlers,
                        Append(done, paths[i].text))
         ELSE IF Handled(exc, handlers)
         THEN WalkFiles(paths, i + 1, parses, handlers, done)
         ELSE [raised |-> TRUE, processed |-> done]

\* how many of the texts satisfy has
CountTexts(texts, has(_)) == Cardinality({i \in DOMAIN texts : has(texts[i])})

\* scalability.py:257-274: the imports ast.walk finds in a text
ImportsOs(text) == text = "import os"

\* scalability.py:319-321: the class definitions ast.walk finds in a text
DefinesClass(text) == text = "class MyClass: pass"

\* scalability.py:389: 'yield' in content
HasYield(text) == text \in {"def gen(): yield 1", "def foo(: yield"}

\* scalability.py:284-297: the points of the import tallies, in tenths
DependencyPoints(texts, n_files) ==
    LET total_imports == CountTexts(texts, ImportsOs)
        external_imports == total_imports           \* os is not app/src/lib
        ratio_bonus == IF total_imports > 0
                       THEN (IF 10 * external_imports > 6 * total_imports THEN 10
                             ELSE IF 10 * external_imports > 4 * total_imports THEN 5
                             ELSE 0)
                       ELSE 0
        count_bonus == IF n_files > 0 /\ 3 * n_files <= total_imports
                                      /\ total_imports <= 15 * n_files
                       THEN 5 ELSE 0
        stdlib_bonus == IF total_imports > 0 THEN 3 ELSE 0
    IN ratio_bonus + count_bonus + stdlib_bonus

\* scalability.py:358-368: the points of the class tallies, in tenths
DesignPoints(texts, n_files) ==
    LET total_classes == CountTexts(texts, DefinesClass)
    IN IF total_classes > 0 /\ n_files > 0 /\ n_files <= total_classes
                            /\ total_classes <= 3 * n_files
       THEN 5 ELSE 0

\* scalability.py:400-407: the points of the data-flow flags, in tenths
DataFlowPoints(texts) == IF CountTexts(texts, HasYield) > 0 THEN 5 ELSE 0

\* scalability.py:240-299: [raised, value], value meaningful when not raised
AnalyzeDependencies(paths) ==
    LET w == WalkFiles(paths, 1, TRUE,
                       {"OSError", "SyntaxError", "UnicodeDecodeError"}, <<>>)
    IN [raised |-> w.raised,
        value |-> IF w.raised THEN Whole(0)
                  ELSE _analyze_dependencies(
                           DependencyPoints(w.processed, Len(paths)))]

\* scalability.py:302-370
AnalyzeDesignPatterns(paths) ==
    LET w == WalkFiles(paths, 1, TRUE,
                       {"OSError", "SyntaxError", "UnicodeDecodeError"}, <<>>)
    IN [raised |-> w.raised,
        value |-> IF w.raised THEN Whole(0)
                  ELSE _analyze_design_patterns(
                           DesignPoints(w.processed, Len(paths)))]

\* scalability.py:373-409 (the text is searched, not parsed)
AnalyzeDataFlow(paths) ==
    LET w == WalkFiles(paths, 1, FALSE,
                       {"OSError", "UnicodeDecodeError"}, <<>>)
    IN [raised |-> w.raised,
        value |-> IF w.raised THEN Whole(0)
                  ELSE _analyze_data_flow(DataFlowPoints(w.processed))]

Analyzed(op, paths, r) ==
    [op |-> op, python_files |-> paths, raised |-> r.raised, value |-> r.value]

CallAnalyzeDependencies ==
    /\ analysis = NoCall
    /\ \E fs \in PathLists :
          analysis' = Analyzed("_analyze_dependencies", fs, AnalyzeDependencies(fs))
    /\ UNCHANGED notAn

CallAnalyzeDesignPatterns ==
    /\ analysis = NoCall
    /\ \E fs \in PathLists :
          analysis' = Analyzed("_analyze_design_patterns", fs, AnalyzeDesignPatterns(fs))
    /\ UNCHANGED notAn

CallAnalyzeDataFlow ==
    /\ analysis = NoCall
    /\ \E fs \in PathLists :
          analysis' = Analyzed("_analyze_data_flow", fs, AnalyzeDataFlow(fs))
    /\ UNCHANGED notAn

\* the caller takes the result; the next call may be made
AnalysisTaken ==
    /\ analysis # NoCall
    /\ analysis' = NoCall
    /\ UNCHANGED notAn

NextAnalyzers ==
    \/ CallAnalyzeDependencies \/ CallAnalyzeDesignPatterns \/ CallAnalyzeDataFlow
    \/ AnalysisTaken

-----------------------------------------------------------------------------
(* llm_tools.py.  A text is a sequence of tokens: the fence of a code      *)
(* block, a character of a language tag or of code, a space, a newline      *)

MaxText == 5

\* the delimiter of a fenced code block, one token
Fence == "FENCE"

TextTokens == {Fence, "x", " ", "\n"}

Texts == UNION { [1..n -> TextTokens] : n \in 0..MaxText }

\* llm_tools.py:29: the character class [a-zA-Z0-9+\-_.] of the pattern
InTagClass(c) == c = "x"

\* llm_tools.py:29: where the greedy [a-zA-Z0-9+\-_.]* started at i stops
RECURSIVE TagRunEnd(_, _)
TagRunEnd(text, i) ==
    IF i <= Len(text) /\ InTagClass(text[i]) THEN TagRunEnd(text, i + 1) ELSE i

\* llm_tools.py:29: the pattern [a-zA-Z0-9+\-_.]*\n([\s\S]*?) tried at
\* position i.  The class cannot match a newline, so giving back characters
\* of the run never helps; the lazy group is the last element of the pattern
\* and matches the empty string right after the newline
MatchAt(text, i) ==
    LET e == TagRunEnd(text, i) IN
    IF e <= Len(text) /\ text[e] = "\n"
    THEN [found |-> TRUE, group1 |-> SubSeq(text, e + 1, e)]
    ELSE [found |-> FALSE, group1 |-> <<>>]

\* llm_tools.py:48: _CODE_BLOCK_RE.search(text), the leftmost match
RECURSIVE Search(_, _)
Search(text, i) ==
    IF i > Len(text) + 1 THEN [found |-> FALSE, group1 |-> <<>>]
    ELSE IF MatchAt(text, i).found THEN MatchAt(text, i)
    ELSE Search(text, i + 1)

\* llm_tools.py:32-51
extract_code_from_text(text) ==
    IF text = <<>> THEN <<>>
    ELSE LET match == Search(text, 1) IN
         IF match.found THEN Strip(match.group1) ELSE Strip(text)

\* llm_tools.py:177-193: what completion() does: it raises (the model call
\* fails), or it answers with a response whose content is a text, with a
\* response without content, or with one neither access path can read
CompletionOutcomes ==
    { [kind |-> "raises"], [kind |-> "no_content"], [kind |-> "unusable"] }
        \cup { [kind |-> "content", content |-> t] : t \in Texts }

\* the original code of the file being perfected
CodeInputs == { <<>>, <<"x", " ", "x">> }

\* llm_tools.py:54-196.  installed: litellm could be imported (line 21-25).
\* [raised, value], value meaningful when not raised
perfect_code_with_model(installed, response, code) ==
    IF ~installed THEN [raised |-> TRUE, value |-> <<>>]        \* RuntimeError
    ELSE IF response.kind \in {"raises", "unusable"}
    THEN [raised |-> TRUE, value |-> <<>>]
    ELSE LET content == IF response.kind = "content" THEN response.content ELSE <<>>
             new_code == extract_code_from_text(content)
         IN [raised |-> FALSE,
             value |-> IF new_code # <<>> THEN new_code ELSE code]  \* new_code or code

\* main.py:414-435: one file and one model of llm_battle; readable tells
\* whether the source file could be read.  The new_code that is written
llm_battle_new_code(installed, response, readable, file_text) ==
    LET original_code == IF readable THEN file_text ELSE <<>>
        r == perfect_code_with_model(installed, response, original_code)
    IN [original_code |-> original_code,
        new_code |-> IF r.raised THEN original_code ELSE r.value]

ExtractCodeFromText ==
    /\ llm = NoCall
    /\ \E text \in Texts :
          llm' = [op |-> "extract_code_from_text", text |-> text,
                  result |-> extract_code_from_text(text)]
    /\ UNCHANGED notLlm

PerfectCodeWithModel ==
    /\ llm = NoCall
    /\ \E installed \in BOOLEAN, response \in CompletionOutcomes, code \in CodeInputs :
          LET r == perfect_code_with_model(installed, response, code) IN
          llm' = [op |-> "perfect_code_with_model", installed |-> installed,
                  response |-> response, code |-> code,
                  raised |-> r.raised, result |-> r.value]
    /\ UNCHANGED notLlm

LlmBattleFile ==
    /\ llm = NoCall
    /\ \E installed \in BOOLEAN, response \in CompletionOutcomes,
          readable \in BOOLEAN, file_text \in CodeInputs :
          LET r == llm_battle_new_code(installed, response, readable, file_text) IN
          llm' = [op |-> "llm_battle", installed |-> installed,
                  response |-> response, original_code |-> r.original_code,
                  new_code |-> r.new_code]
    /\ UNCHANGED notLlm

\* the result is used; the next call may be made
LlmResultTaken ==
    /\ llm # NoCall
    /\ llm' = NoCall
    /\ UNCHANGED notLlm

NextLlm ==
    ExtractCodeFromText \/ PerfectCodeWithModel \/ LlmBattleFile \/ LlmResultTaken

-----------------------------------------------------------------------------
(* Specifications *)

\* compare runs; the weather reminder is not started
Init == InitCompare /\ IdleUmbrella /\ IdleRest

Next == NextCompare

Spec == Init /\ [][Next]_vars

\* the weather reminder runs; compare is not started
SpecUmbrella == InitUmbrella /\ [][NextUmbrella]_vars

\* normalize_scores_zscore alone
SpecNormalize == Init /\ [][NextNormalize]_vars

\* get_codebase_size_bucket alone
SpecBucket == Init /\ [][NextBucket]_vars

\* the scorers, called one after the other on codebases of any kind
SpecScorers == Init /\ [][NextScorers]_vars

\* assess_testability on a codebase whose coverage.json comes and goes
SpecTestability == Init /\ [][NextTestability]_vars

\* the scalability analyzers on lists of paths of every kind
SpecAnalyzers == Init /\ [][NextAnalyzers]_vars

\* the calls into llm_tools.py
SpecLlm == Init /\ [][NextLlm]_vars


-----------------------------------------------------------------------------
(* Claims about compare *)

Executed1 == DOMAIN returned1
Executed2 == DOMAIN returned2

UserWeight(n) ==
    IF n \in DOMAIN benchmark_weights THEN benchmark_weights[n] ELSE 10

\* C2: when compare has finished, each codebase's total is the sum, over the
\* benchmarks that were run, of the codebase's normalized score times the
\* benchmark's weight: the user-supplied weight of that name, 1.0 without one.
C2_TotalIsWeightedSum ==
    pc = "done" =>
        /\ DOMAIN normalized_scores1 = Executed1
        /\ DOMAIN normalized_scores2 = Executed2
        /\ total_score1 =
             SumOver(Executed1,
                     [n \in Executed1 |-> normalized_scores1[n] * UserWeight(n)])
        /\ total_score2 =
             SumOver(Executed2,
                     [n \in Executed2 |-> normalized_scores2[n] * UserWeight(n)])

\* a finished run of several benchmarks, one with a user weight, one without,
\* in which the normalisation changed a score
C2_Witness ==
    /\ pc = "done"
    /\ Cardinality(Executed1) >= 2
    /\ \E n \in Executed1 : n \in DOMAIN benchmark_weights /\ benchmark_weights[n] # 10
    /\ \E n \in Executed1 : n \notin DOMAIN benchmark_weights
    /\ normalized_scores1 # raw_scores1
    /\ total_score1 > 0

\* C3: codebase 1 is the overall winner exactly when its total is strictly
\* greater, codebase 2 exactly when its total is strictly greater, and the
\* result is a tie exactly when the totals are equal.
C3_WinnerByTotals ==
    pc = "done" =>
        /\ (overall_winner = "codebase1") <=> (total_score1 > total_score2)
        /\ (overall_winner = "codebase2") <=> (total_score2 > total_score1)
        /\ (overall_winner = "tie") <=> (total_score1 = total_score2)

\* a tie of two codebases whose raw scores differ
C3_Witness ==
    /\ pc = "done"
    /\ overall_winner = "tie"
    /\ total_score1 > 0
    /\ raw_scores1 # raw_scores2

\* the stripped, non-empty tokens of the --skip option
SkipTokens ==
    LET tokens == Split(skip, ",") IN
    {Strip(tokens[i]) : i \in DOMAIN tokens} \ {<<>>}

\* C5: a benchmark named in the skip list, by its module name or by its
\* display name, is run on neither codebase and adds nothing to a total.
C5_SkippedNeverRuns ==
    \A m \in Modules :
        (m \in SkipTokens \/ DisplayName(m) \in SkipTokens) =>
            /\ DisplayName(m) \notin Executed1 \cup Executed2
            /\ DisplayName(m) \notin DOMAIN raw_scores1 \cup DOMAIN raw_scores2

Codebases == {1, 2}
Ret(c) == IF c = 1 THEN returned1 ELSE returned2
Obj(c) == IF c = 1 THEN result_objects1 ELSE result_objects2
Raw(c) == IF c = 1 THEN raw_scores1 ELSE raw_scores2
Det(c) == IF c = 1 THEN details1 ELSE details2
Norm(c) == IF c = 1 THEN normalized_scores1 ELSE normalized_scores2

\* C7: a scorer that returns a BenchmarkResult and one that returns the legacy
\* tuple with the same score and details are treated alike: the same raw
\* score is recorded and enters the normalisation, and the same details are
\* recorded.
C7_ResultTypesAlike ==
    \A c \in Codebases, e \in Codebases :
      \A a \in DOMAIN Ret(c), b \in DOMAIN Ret(e) :
        (Ret(c)[a] = Ret(e)[b] /\ Obj(c)[a].type # Obj(e)[b].type) =>
            /\ Raw(c)[a] = Ret(c)[a].score
            /\ Raw(e)[b] = Raw(c)[a]
            /\ Det(c)[a] = Ret(c)[a].details
            /\ Det(e)[b] = Det(c)[a]
            /\ (pc = "done" /\ c = e) =>
                   /\ Norm(c)[a] = Norm(c)[b]
                   /\ Norm(c)[a] * UserWeight(b) = Norm(c)[b] * UserWeight(b)

\* a finished run with a BenchmarkResult scorer and a tuple scorer that
\* returned the same score and details for codebase 1
C7_Witness ==
    /\ pc = "done"
    /\ \E a \in Executed1, b \in Executed1 :
          /\ result_objects1[a].type = "BenchmarkResult"
          /\ result_objects1[b].type = "tuple"
          /\ returned1[a] = returned1[b]
          /\ returned1[a].score > 1000

-----------------------------------------------------------------------------
(* Claims about the weather reminder *)

\* k is f"{x:.4f}" of the coordinate x
FormatsTo4Decimals(k, x) ==
    /\ k.neg = (x < 0)
    /\ 10 * k.digits - Abs(x) <= 5
    /\ Abs(x) - 10 * k.digits <= 5

CallsNamed(fn) == {i \in DOMAIN last.calls : last.calls[i][1] = fn}

\* the steps of a run that fetches: one cache lookup, one get_weather with the
\* geocoded coordinates, one cache.set of the returned data under the key of
\* the provider class and the coordinates to 4 decimals, one check_for_rain on
\* that data, one message to each notifier, in this order; no older entry is
\* left under the key
FetchSteps ==
    LET calls == last.calls
        k == last.key
        data == last.fetched
    IN /\ Len(calls) = 5 + Len(notifiers)
       /\ calls[1][1] = "get_coords"
       /\ calls[2] = <<"cache.get", k>>
       /\ k[1] = provider
       /\ FormatsTo4Decimals(k[2], last.coords[1])
       /\ FormatsTo4Decimals(k[3], last.coords[2])
       /\ calls[3] = <<"get_weather", last.coords[1], last.coords[2]>>
       /\ calls[4] = <<"cache.set", k, data>>
       /\ calls[5] = <<"check_for_rain", data>>
       /\ \A i \in DOMAIN notifiers :
             /\ calls[5 + i][1] = "send"
             /\ calls[5 + i][2] = notifiers[i]
       /\ FileOf(cache_files, k) \in {CacheFile(last.at, data), CorruptFile, NoFile}

\* C8 (as the code has it): when run is called with a location that geocodes,
\* the cache returns nothing for it AND the provider returns weather data, the
\* steps happen in this order: one cache lookup, one get_weather with the
\* geocoded coordinates, one cache.set of the returned data under the key
\* '<ProviderClassName>-<lat to 4 decimals>-<lon to 4 decimals>', one
\* check_for_rain on that data, one message to each configured notifier.
C8_MissFetchesStoresNotifies ==
    (last.op = "run" /\ last.coords # NoCoords /\ ~Truthy(last.cached)
        /\ Truthy(last.fetched))
    => FetchSteps

C8_Witness ==
    /\ last.op = "run"
    /\ last.coords = <<-4, 2000006>>
    /\ ~last.had_entry
    /\ last.fetched = "rainy"
    /\ Len(notifiers) = 2
    /\ cache_enabled
    /\ last.key \in DOMAIN cache_files
    /\ cache_files[last.key] = CacheFile(last.at, "rainy")
    /\ last.calls[7] = <<"send", "email", RainMessage>>

\* C8 as stated: whenever the location geocodes and the cache has no entry,
\* all of the steps happen (whatever the provider returns)
C8_AsStated ==
    (last.op = "run" /\ last.coords # NoCoords /\ ~last.had_entry) => FetchSteps

\* C9: when run finds weather data in the cache, get_weather is never called
\* and the cache is never written during that run; the rain decision and the
\* notifications are made from the cached data.
C9_HitUsesCachedData ==
    (last.op = "run" /\ last.coords # NoCoords /\ Truthy(last.cached))
    => /\ CallsNamed("get_weather") = {}
       /\ CallsNamed("cache.set") = {}
       /\ ~last.wrote
       /\ Len(last.calls) = 3 + Len(notifiers)
       /\ last.calls[2] = <<"cache.get", last.key>>
       /\ last.calls[3] = <<"check_for_rain", last.cached>>
       /\ \A i \in DOMAIN notifiers :
             last.calls[3 + i] =
                <<"send", notifiers[i],
                  IF last.cached = "rainy" THEN RainMessage ELSE NoRainMessage>>

C9_Witness ==
    /\ last.op = "run"
    /\ last.cached = "dry"
    /\ last.fetched = "rainy"
    /\ Len(notifiers) = 2
    /\ last.calls[5] = <<"send", "email", NoRainMessage>>
    /\ cache_files[last.key].timestamp < last.at

\* C10: Cache.get(key) returns the stored payload if and only if caching is
\* enabled, an entry for key exists, and that entry was written at most ttl
\* seconds ago; in every other case it returns None.
C10_GetReturnsFreshEntryOnly ==
    last.op = "get" =>
        LET f == last.file
            fresh == /\ cache_enabled
                     /\ f.state = "valid"
                     /\ last.at - f.timestamp <= cache_ttl
        IN /\ fresh <=> (f.state = "valid" /\ last.ret = f.payload)
           /\ ~fresh => last.ret = None

C10_Witness ==
    /\ last.op = "get"
    /\ last.file.state = "valid"
    /\ cache_ttl = 1
    /\ last.at - last.file.timestamp = cache_ttl
    /\ last.ret = "rainy"

-----------------------------------------------------------------------------
(* Claims about the score utilities *)

\* C4: normalization preserves the relationships of the raw scores of one
\* codebase: for any two benchmarks a and b, raw[a] < raw[b] implies
\* normalized[a] < normalized[b], and equal raw scores stay equal.
C4_NormalizationKeepsOrder ==
    nz_pc = "done" =>
        /\ DOMAIN normalized_scores = DOMAIN raw_scores
        /\ \A a \in DOMAIN raw_scores, b \in DOMAIN raw_scores :
              /\ raw_scores[a] < raw_scores[b]
                    => normalized_scores[a] < normalized_scores[b]
              /\ raw_scores[a] = raw_scores[b]
                    => normalized_scores[a] = normalized_scores[b]

C4_Witness ==
    /\ nz_pc = "done"
    /\ \E a \in DOMAIN raw_scores, b \in DOMAIN raw_scores, c \in DOMAIN raw_scores :
          /\ raw_scores[a] = 1000 /\ raw_scores[b] = 1010 /\ raw_scores[c] = 2000
          /\ normalized_scores[b] < raw_scores[b]
          /\ normalized_scores[a] < normalized_scores[b]
          /\ normalized_scores[b] < normalized_scores[c]

\* the bucket of a count of lines
BucketOf(count) ==
    IF count < 100 THEN "small"
    ELSE IF count <= 999 THEN "medium"
    ELSE "large"

\* C6 (as the code has it): get_codebase_size_bucket classifies a codebase by
\* the total number of non-blank lines in those of its Python files that can
\* be opened and decoded as UTF-8 (a file that cannot is left out of the
\* count): 'small' below 100, 'medium' from 100 to 999, 'large' from 1000.
C6_BucketByReadableNonBlankLines ==
    bucket # NotYet =>
        LET counted == {i \in DOMAIN python_files : python_files[i].readable}
            count == SumOver(counted, [i \in counted |-> python_files[i].non_empty])
        IN bucket = BucketOf(count)

C6_Witness ==
    /\ bucket = "medium"
    /\ Len(python_files) = 3
    /\ \E i \in DOMAIN python_files : ~python_files[i].readable
    /\ \E i \in DOMAIN python_files :
          python_files[i].readable /\ python_files[i].blank > 0
    /\ total_loc(python_files, 1) = 100

\* C6 as stated: the count is that of the non-blank lines of all the Python
\* files of the codebase
C6_AsStated ==
    bucket # NotYet =>
        LET all == DOMAIN python_files
            count == SumOver(all, [i \in all |-> python_files[i].non_empty])
        IN bucket = BucketOf(count)

-----------------------------------------------------------------------------
(* Claims about the scorers *)

\* C1: for every registered benchmark scorer and every codebase, the score
\* the scorer returns lies in the closed range 0 to 10.
C1_ScoreWithin0And10 ==
    called.scorer # NotYet =>
        /\ returned_score.d > 0
        /\ FLeq(Whole(0), returned_score)
        /\ FLeq(returned_score, Whole(10))

\* a call whose score the final cap brings down to 10
C1_Witness ==
    /\ called.scorer = "security"
    /\ called.args[6] = "small"
    /\ called.args[4].kind = "no_requirements"
    /\ returned_score.n = 10 * returned_score.d
    /\ FLess(Whole(9), assess_security(called.args[1], called.args[2], called.args[3],
                                       called.args[4], called.args[5], "medium"))
    /\ FLess(assess_security(called.args[1], called.args[2], called.args[3],
                             called.args[4], called.args[5], "medium"), Whole(10))

-----------------------------------------------------------------------------
(* Claims about assess_testability *)

\* the call got as far as launching pytest
PytestRan == tb.has_tests /\ tb.pytest # "not_found"

C12_ReportRemovedAtReturn ==
    (tb.op = "assess_testability" /\ tb.returned /\ PytestRan
        /\ tb.after_pytest # NoReport)
    => (tb.at_return = NoReport /\ coverage_json = NoReport)

\* a report that could not be parsed is removed as well
C12_Witness ==
    /\ tb.op = "assess_testability" /\ tb.returned /\ PytestRan
    /\ tb.after_pytest = [json |-> "malformed"]
    /\ tb.outcome = "bad_report"
    /\ coverage_json = NoReport

-----------------------------------------------------------------------------
(* Claims about the git-health score *)

\* a git_health call that got as far as the churn formula: a repository with
\* changed Python files
ChurnScored ==
    /\ called.scorer = "git_health"
    /\ called.args[1]
    /\ called.args[2][2] > 0

\* the base of the claim for an average churn of changes / files
C13_Base(changes, files) ==
    IF changes < 3 * files THEN 9
    ELSE IF changes < 10 * files THEN 7
    ELSE IF changes < 20 * files THEN 5
    ELSE 3

\* min(10, base + min(2, b/5)) in fifths
C13_Fifths(changes, files, b) ==
    LET bonus == IF b < 10 THEN b ELSE 10
        sum == 5 * C13_Base(changes, files) + bonus
    IN IF sum < 50 THEN sum ELSE 50

\* C13: the git-health score for an average churn c and a bus factor b equals
\* min(10, base + min(2, b/5)), where base is 9 when c < 3, 7 when
\* 3 <= c < 10, 5 when 10 <= c < 20, and 3 when c >= 20.
C13_GitHealthFormula ==
    ChurnScored =>
        returned_score = Frac(C13_Fifths(called.args[2][1], called.args[2][2],
                                         called.args[3]), 5)

\* an average churn of exactly 10 with five committers: base 5 plus 1
C13_Witness ==
    /\ ChurnScored
    /\ called.args[2] = <<20, 2>>
    /\ called.args[3] = 5
    /\ returned_score = Whole(6)

-----------------------------------------------------------------------------
(* Claims about the scalability analyzers *)

\* C14: _analyze_dependencies, _analyze_design_patterns and _analyze_data_flow
\* never raise and always return a number, even when the file list contains
\* a file with a syntax error, an unreadable file, or a directory path.
C14_AnalyzersNeverRaise ==
    analysis # NoCall =>
        /\ ~analysis.raised
        /\ FLeq(Whole(0), analysis.value)
        /\ FLeq(analysis.value, Whole(2))

\* _analyze_dependencies given a file with a syntax error, then a directory,
\* then a good file whose import is still counted
C14_Witness ==
    /\ analysis # NoCall
    /\ analysis.op = "_analyze_dependencies"
    /\ Len(analysis.python_files) = 3
    /\ analysis.python_files[1].kind = "syntax_error"
    /\ analysis.python_files[2].kind \in {"unreadable", "directory"}
    /\ analysis.python_files[3].text = "import os"
    /\ ~analysis.raised
    /\ analysis.value = Tenths(13)

-----------------------------------------------------------------------------
(* Claims about llm_tools.py *)

\* a fenced code block opens at position i: a fence, a language tag (possibly
\* empty), a newline, and a closing fence somewhere after it
BlockAt(text, i) ==
    /\ text[i] = Fence
    /\ LET e == TagRunEnd(text, i + 1) IN
          /\ e <= Len(text)
          /\ text[e] = "\n"
          /\ \E j \in (e + 1)..Len(text) : text[j] = Fence

HasBlock(text) == \E i \in DOMAIN text : BlockAt(text, i)

\* the inner contents of the first fenced code block of a text that has one
InnerOfFirstBlock(text) ==
    LET i == CHOOSE k \in DOMAIN text :
                 BlockAt(text, k) /\ \A m \in 1..(k - 1) : ~BlockAt(text, m)
        e == TagRunEnd(text, i + 1)
        j == CHOOSE k \in (e + 1)..Len(text) :
                 text[k] = Fence /\ \A m \in (e + 1)..(k - 1) : text[m] # Fence
    IN SubSeq(text, e + 1, j - 1)

\* the code the claims expect to be taken from a text
ExpectedCode(text) ==
    IF HasBlock(text) THEN Strip(InnerOfFirstBlock(text)) ELSE Strip(text)

\* C16: extract_code_from_text returns the inner contents, trimmed of
\* surrounding whitespace, of the first fenced code block when the text
\* contains one, and returns the whole text trimmed of whitespace when it
\* contains no fenced code block.
C16_ExtractsFirstBlockOrText ==
    llm.op = "extract_code_from_text" => llm.result = ExpectedCode(llm.text)

\* the model call of a llm_battle step failed: litellm is missing, the call
\* raised, or the response could not be read
ModelCallFailed ==
    ~llm.installed \/ llm.response.kind \in {"raises", "unusable"}

\* C15: perfect_code_with_model returns the perfected source code returned by
\* the model, or the original code on failure: when the model call fails, the
\* caller (llm_battle) receives the original code unchanged, and when the
\* model answers with code, the caller receives that code.
C15_PerfectedOrOriginal ==
    llm.op = "llm_battle" =>
        /\ ModelCallFailed => llm.new_code = llm.original_code
        /\ ( /\ ~ModelCallFailed
             /\ llm.response.kind = "content"
             /\ ExpectedCode(llm.response.content) # <<>> )
           => llm.new_code = ExpectedCode(llm.response.content)

-----------------------------------------------------------------------------
(* Claims about send_notifications *)

\* the sends among the calls of the last operation, in the order made
SendsMade == SelectSeq(last.calls, LAMBDA c : c[1] = "send")

\* the last operation got as far as send_notifications
Notified ==
    \/ last.op = "send_notifications"
    \/ (last.op = "run" /\ \E i \in DOMAIN last.calls : last.calls[i][1] = "check_for_rain")

\* C17: send_notifications sends the message using all configured notifiers:
\* every configured notifier is tried once, in configuration order, and an
\* exception raised by one notifier does not prevent the remaining notifiers
\* from being tried.
C17_EveryNotifierTriedOnce ==
    Notified =>
        /\ Len(SendsMade) = Len(notifiers)
        /\ \A i \in DOMAIN notifiers : SendsMade[i][2] = notifiers[i]
        /\ last.op = "send_notifications" =>
              \A i \in DOMAIN notifiers : SendsMade[i][3] = last.message

\* the first notifier raises and the second is tried all the same
C17_Witness ==
    /\ last.op = "send_notifications"
    /\ notifiers = <<"console", "email">>
    /\ last.raising = {1}
    /\ last.errors = <<<<"error", "console">>>>
    /\ last.calls = <<<<"send", "console", last.message>>, <<"send", "email", last.message>>>>

-----------------------------------------------------------------------------
(* Claims about normalize_scores_zscore *)

\* there are at least two scores and the largest exceeds 15
HasOutlier ==
    /\ Cardinality(DOMAIN raw_scores) >= 2
    /\ \E n \in DOMAIN raw_scores : raw_scores[n] > 1500

\* C18: normalize_scores_zscore returns the scores unchanged unless there are
\* at least two scores and the largest exceeds 15; in that case every score
\* above 10 is replaced by 10 + 0.3 * (score - 10) and every score of 10 or
\* less is left unchanged.
C18_CompressesAboveTenOnOutlier ==
    nz_pc = "done" =>
        /\ DOMAIN normalized_scores = DOMAIN raw_scores
        /\ ~HasOutlier => normalized_scores = raw_scores
        /\ HasOutlier =>
              \A n \in DOMAIN raw_scores :
                 /\ raw_scores[n] > 1000
                       => 10 * normalized_scores[n] = 10000 + 3 * (raw_scores[n] - 1000)
                 /\ raw_scores[n] <= 1000 => normalized_scores[n] = raw_scores[n]

\* 20 next to 10: 20 becomes 13 and 10 stays
C18_Witness ==
    /\ nz_pc = "done"
    /\ Cardinality(DOMAIN raw_scores) = 2
    /\ \E a \in DOMAIN raw_scores, b \in DOMAIN raw_scores :
          /\ raw_scores[a] = 2000 /\ normalized_scores[a] = 1300
          /\ raw_scores[b] = 1000 /\ normalized_scores[b] = 1000

==========================================================================
